---- MODULE Spec2Model ----
(***************************************************************************)
(* generador_graficas.py: a Streamlit script.  Every user interaction      *)
(* (upload, widget change, button press) runs the whole script once, top   *)
(* to bottom.  The state is what survives between runs (the uploads, the   *)
(* widget values, st.session_state) together with what the last run        *)
(* produced (tables, messages, figures, map, downloads).                   *)
(***************************************************************************)
EXTENDS Integers, Sequences, FiniteSets, TLC

VARIABLES
    uploaded_file,      \* data-file uploader: [status, rows]
    uploaded_geojson,   \* GeoJSON uploader: "none" | "ok" | "corrupt"
    widgets,            \* current values of the widgets the script reads
    session_state,      \* st.session_state: [preview_fig, last_chart_type]
    run                 \* everything the last script run produced

vars == <<uploaded_file, uploaded_geojson, widgets, session_state, run>>

-----------------------------------------------------------------------------
(* Bounds of the model *)

MaxRows == 2

-----------------------------------------------------------------------------
(* Cells.  A cell is a number, a text or the missing value (NaN). *)

Num(n) == [k |-> "num", n |-> n, s |-> ""]
Str(s) == [k |-> "str", n |-> 0, s |-> s]
NaN == [k |-> "nan", n |-> 0, s |-> ""]

None == "None"
Ninguna == "Ninguna"

\* The columns of the uploaded table, in file order.
Columns == <<"lat", "lon", "valor", "lluvia">>

\* Rows a data file may hold (as pd.read_csv parses them: an empty or
\* "NaN" field is read as NaN).
RowDomain ==
    { [lat |-> Num(1), lon |-> Num(2), valor |-> Num(2), lluvia |-> Str("si")],
      [lat |-> Num(3), lon |-> Num(4), valor |-> Num(0), lluvia |-> Str("SI")],
      [lat |-> NaN,    lon |-> Num(2), valor |-> Num(1), lluvia |-> Str("si")],
      [lat |-> Num(1), lon |-> NaN,    valor |-> Num(0), lluvia |-> NaN] }

RECURSIVE SeqsUpTo(_, _)
SeqsUpTo(S, n) ==
    IF n = 0 THEN { <<>> }
    ELSE LET shorter == SeqsUpTo(S, n - 1)
         IN  shorter \cup { Append(t, r) : t \in shorter, r \in S }

Tables == SeqsUpTo(RowDomain, MaxRows)

\* The options of the chart-type selectbox (accents dropped).
MapChart == "Mapa de Calor Geografico"
CorrChart == "Mapa de Calor de Correlacion"

ChartTypes ==
    { MapChart, "Grafico de Barras", "Grafico de Lineas",
      "Grafico de Dispersion", "Histograma", CorrChart, "Grafico de Pastel" }

FiltroModes ==
    { "Mostrar todos", "Solo reportes por lluvia", "Excluir reportes por lluvia" }

\* st.slider("Radio de los puntos", 5, 30, 10): lowest value and default.
MinHeatRadius == 5
DefaultHeatRadius == 10
HeatRadii == { MinHeatRadius, DefaultHeatRadius }

-----------------------------------------------------------------------------
(* Exact arithmetic on fractions (the script computes in floating point). *)

Abs(x) == IF x < 0 THEN -x ELSE x

RECURSIVE GCD(_, _)
GCD(a, b) == IF b = 0 THEN a ELSE GCD(b, a % b)

Frac(n, d) ==
    LET g == GCD(Abs(n), Abs(d))
        sgn == IF d < 0 THEN -1 ELSE 1
    IN  [num |-> sgn * (n \div g), den |-> sgn * (d \div g)]

FracGT(a, b) == a.num * b.den > b.num * a.den

RECURSIVE SumSeq(_)
SumSeq(s) == IF s = <<>> THEN 0 ELSE Head(s) + SumSeq(Tail(s))

RECURSIVE MaxSeq(_)
MaxSeq(s) ==
    IF Len(s) = 1 THEN Head(s)
    ELSE LET m == MaxSeq(Tail(s)) IN IF Head(s) > m THEN Head(s) ELSE m

-----------------------------------------------------------------------------
(* Upload processing (lines 61-98) *)

Msg(level, text, n) == [level |-> level, text |-> text, n |-> n]

\* pandas gives the rows of a freshly read table the labels 1..n (RangeIndex).
ReadTable(rows) ==
    [i \in 1..Len(rows) |->
        [idx |-> i, lat |-> rows[i].lat, lon |-> rows[i].lon,
         valor |-> rows[i].valor, lluvia |-> rows[i].lluvia]]

\* Variant of ReplaceCell that rewrites the texts only, not np.nan.
ReplaceCellTexts(cell) ==
    IF cell \in { Str("nan"), Str("NaN"), Str("") }
    THEN Str("No especificado")
    ELSE cell

\* df.replace([np.nan, 'nan', 'NaN', ''], 'No especificado'), one cell.
ReplaceCell(cell) ==
    IF cell \in { NaN, Str("nan"), Str("NaN"), Str("") }
    THEN Str("No especificado")
    ELSE cell

CleanTable(t) ==
    [i \in 1..Len(t) |->
        [idx |-> t[i].idx, lat |-> ReplaceCell(t[i].lat),
         lon |-> ReplaceCell(t[i].lon), valor |-> ReplaceCell(t[i].valor),
         lluvia |-> ReplaceCell(t[i].lluvia)]]

\* "Procesar archivo de datos": df stays None when the parse raises.
LoadData(f) ==
    IF f.status = "none"
    THEN [df_loaded |-> FALSE, df |-> <<>>, msgs |-> {}]
    ELSE IF f.status = "corrupt"
    THEN [df_loaded |-> FALSE, df |-> <<>>,
          msgs |-> { Msg("error", "Error al cargar archivo", 0) }]
    ELSE [df_loaded |-> TRUE, df |-> CleanTable(ReadTable(f.rows)),
          msgs |-> { Msg("success", "Datos cargados", Len(f.rows)) }]

\* "Procesar GeoJSON": gdf stays None when the parse raises.
LoadGeojson(g) ==
    IF g = "none"
    THEN [gdf_loaded |-> FALSE, msgs |-> {}]
    ELSE IF g = "corrupt"
    THEN [gdf_loaded |-> FALSE,
          msgs |-> { Msg("error", "Error al cargar GeoJSON", 0) }]
    ELSE [gdf_loaded |-> TRUE, msgs |-> { Msg("success", "GeoJSON cargado", 0) }]

-----------------------------------------------------------------------------
(* Column selection (lines 304-342) *)

lat_col == "lat"
lon_col == "lon"

ColumnSet == { Columns[i] : i \in 1..Len(Columns) }

\* A column has a numeric dtype when it has rows and every cell is a number.
IsNumericColumn(df, col) ==
    Len(df) > 0 /\ \A i \in 1..Len(df) : df[i][col].k = "num"

\* df.select_dtypes(include=[np.number]).columns.tolist()
numeric_columns(df) == SelectSeq(Columns, LAMBDA c : IsNumericColumn(df, c))

\* The value selectbox offers the numeric columns only; the user keeps
\* "valor" when it is offered, else the first option; None without options.
ValueCol(df) ==
    LET nc == numeric_columns(df)
    IN  IF nc = <<>> THEN None
        ELSE IF \E i \in 1..Len(nc) : nc[i] = "valor" THEN "valor"
        ELSE nc[1]

LluviaCols == { Ninguna, "lluvia" }

-----------------------------------------------------------------------------
(* Rain filter (lines 382-392) *)

\* map_df[map_df[lluvia_col] == "si"]
SoloLluvia(t, lluvia_col) ==
    SelectSeq(t, LAMBDA r : r[lluvia_col] = Str("si"))

\* str.lower() on the texts a rain column holds.
Lower(s) ==
    IF s \in { "SI", "Si", "sI" } THEN "si"
    ELSE IF s = "No" THEN "no"
    ELSE IF s = "No especificado" THEN "no especificado"
    ELSE s

\* Variant of ExcluirLluvia that lower-cases before comparing, while the
\* rain-only filter compares the text as it is.
ExcluirLluviaLower(t, lluvia_col) ==
    SelectSeq(t, LAMBDA r : ~(r[lluvia_col].k = "str" /\ Lower(r[lluvia_col].s) = "si"))

\* map_df[map_df[lluvia_col] != "si"]
ExcluirLluvia(t, lluvia_col) ==
    SelectSeq(t, LAMBDA r : r[lluvia_col] # Str("si"))

\* Variant of RainFilter whose last branch ("Mostrar todos") filters too.
RainFilterElseFilters(df, lluvia_col, filtro_lluvia) ==
    IF lluvia_col # Ninguna /\ lluvia_col \in ColumnSet
    THEN IF filtro_lluvia = "Solo reportes por lluvia"
         THEN [map_df |-> SoloLluvia(df, lluvia_col), msgs |-> {}]
         ELSE [map_df |-> ExcluirLluvia(df, lluvia_col), msgs |-> {}]
    ELSE [map_df |-> df, msgs |-> {}]

RainFilter(df, lluvia_col, filtro_lluvia) ==
    IF lluvia_col # Ninguna /\ lluvia_col \in ColumnSet
    THEN IF filtro_lluvia = "Solo reportes por lluvia"
         THEN LET m == SoloLluvia(df, lluvia_col)
              IN  [map_df |-> m,
                   msgs |-> { Msg("info", "Filtrado: solo reportes por lluvia", Len(m)) }]
         ELSE IF filtro_lluvia = "Excluir reportes por lluvia"
         THEN LET m == ExcluirLluvia(df, lluvia_col)
              IN  [map_df |-> m,
                   msgs |-> { Msg("info", "Filtrado: excluyendo reportes por lluvia", Len(m)) }]
         ELSE [map_df |-> df,
               msgs |-> { Msg("info", "Mostrando todos los registros", 0) }]
    ELSE [map_df |-> df, msgs |-> {}]

-----------------------------------------------------------------------------
(* Missing-coordinate check (lines 394-404) *)

\* Series.isna(), one cell: only a real NaN counts, a text does not.
IsNa(cell) == cell.k = "nan"

MissingCount(t, col) == Cardinality({ i \in 1..Len(t) : IsNa(t[i][col]) })

\* map_df.dropna(subset=[lat_col, lon_col])
DropNa(t) ==
    SelectSeq(t, LAMBDA r : ~IsNa(r[lat_col]) /\ ~IsNa(r[lon_col]))

-----------------------------------------------------------------------------
(* Map generation (lines 406-518) *)

NoMap ==
    [made |-> FALSE, center |-> <<Frac(0, 1), Frac(0, 1)>>,
     overlay |-> FALSE, markers |-> <<>>]

\* Series.mean() raises on a column that holds a text.
MeanRaises(t, col) == \E i \in 1..Len(t) : t[i][col].k # "num"

Mean(t, col) == Frac(SumSeq([i \in 1..Len(t) |-> t[i][col].n]), Len(t))

ColumnMax(t, col) == MaxSeq([i \in 1..Len(t) |-> t[i][col].n])

\* Variant of MapTrigger in which auto-update alone regenerates the map.
MapTriggerAuto(button, auto_update, last_chart_type) ==
    button \/ auto_update

\* The condition of the generate-map "if".
MapTrigger(button, auto_update, last_chart_type) ==
    button \/ (auto_update /\ last_chart_type = MapChart)

\* Variant of OverlayGuard without the "gdf is not None" test.
OverlayGuardNoGdf(geo, gdf_loaded, show_geojson) ==
    IF geo # "none"
    THEN IF show_geojson = "undef" THEN "NameError"
         ELSE IF show_geojson = "on" THEN "yes" ELSE "no"
    ELSE "no"

\* uploaded_geojson is not None and gdf is not None and show_geojson,
\* evaluated left to right; show_geojson is bound only when the GeoJSON
\* configuration block ran.
OverlayGuard(geo, gdf_loaded, show_geojson) ==
    IF geo # "none" /\ gdf_loaded
    THEN IF show_geojson = "undef" THEN "NameError"
         ELSE IF show_geojson = "on" THEN "yes" ELSE "no"
    ELSE "no"

\* Variant of Radius without the max(): the scaled radius itself.
RadiusScaled(cell, mx, heat_radius) ==
    IF cell.k # "num" \/ mx = 0
    THEN Frac(heat_radius, 1)
    ELSE Frac(heat_radius * cell.n, mx)

\* radius = max(heat_radius, heat_radius * (valor / max)); the bare except
\* gives heat_radius.  A zero maximum gives nan or -inf, which max() drops.
Radius(cell, mx, heat_radius) ==
    IF cell.k # "num" \/ mx = 0
    THEN Frac(heat_radius, 1)
    ELSE LET scaled == Frac(heat_radius * cell.n, mx)
         IN  IF FracGT(scaled, Frac(heat_radius, 1))
             THEN scaled
             ELSE Frac(heat_radius, 1)

Markers(map_df, value_col, heat_radius) ==
    [i \in 1..Len(map_df) |->
        [idx |-> map_df[i].idx,
         lat |-> map_df[i][lat_col].n,
         lon |-> map_df[i][lon_col].n,
         valor |-> map_df[i][value_col],
         radius |-> Radius(map_df[i][value_col],
                           ColumnMax(map_df, value_col), heat_radius)]]

\* The body of the try block: the map, or the caught exception.
GenerateMap(map_df, value_col, geo, gdf_loaded, show_geojson, heat_radius) ==
    LET failed == [map |-> NoMap,
                   msgs |-> { Msg("error", "Error al generar mapa", 0) },
                   figures |-> {}, downloads |-> {}]
        ov == OverlayGuard(geo, gdf_loaded, show_geojson)
    IN  IF MeanRaises(map_df, lat_col) \/ MeanRaises(map_df, lon_col)
        THEN failed
        ELSE IF ov = "NameError"
        THEN failed
        ELSE [map |-> [made |-> TRUE,
                       center |-> <<Mean(map_df, lat_col), Mean(map_df, lon_col)>>,
                       overlay |-> (ov = "yes"),
                       markers |-> Markers(map_df, value_col, heat_radius)],
              msgs |-> {},
              figures |-> { "mapa" },
              downloads |-> { "csv", "html" }]

\* The whole "Mapa de Calor Geografico" branch.
MapSection(df, geo, gdf_loaded, w, ss, button) ==
    LET rf == RainFilter(df, w.lluvia_col, w.filtro_lluvia)
        value_col == ValueCol(df)
        warn == IF value_col = None
                THEN { Msg("warning", "No se encontraron columnas numericas", 0) }
                ELSE {}
        checked == value_col # None /\ rf.map_df # <<>>
        missing_lat == IF checked THEN MissingCount(rf.map_df, lat_col) ELSE 0
        missing_lon == IF checked THEN MissingCount(rf.map_df, lon_col) ELSE 0
        missing_val == IF checked THEN MissingCount(rf.map_df, value_col) ELSE 0
        dropped == checked /\ (missing_lat > 0 \/ missing_lon > 0)
        map_df == IF dropped THEN DropNa(rf.map_df) ELSE rf.map_df
        generate == checked /\ MapTrigger(button, w.auto_update, ss.last_chart_type)
        gen == IF generate
               THEN GenerateMap(map_df, value_col, geo, gdf_loaded,
                                w.show_geojson, w.heat_radius)
               ELSE [map |-> NoMap, msgs |-> {}, figures |-> {}, downloads |-> {}]
        guardmsgs ==
            IF checked
            THEN IF dropped
                 THEN { Msg("warning", "Se encontraron datos faltantes", missing_lat + missing_lon) }
                 ELSE {}
            ELSE IF rf.map_df = <<>>
                 THEN { Msg("error", "No hay datos despues de aplicar los filtros", 0) }
                 ELSE { Msg("error", "Por favor selecciona todas las columnas requeridas", 0) }
    IN  [map_df |-> map_df, value_col |-> value_col,
         missing_lat |-> missing_lat, missing_lon |-> missing_lon,
         missing_val |-> missing_val, dropped |-> dropped,
         generate |-> generate, map |-> gen.map,
         msgs |-> warn \cup rf.msgs \cup guardmsgs \cup gen.msgs,
         figures |-> gen.figures, downloads |-> gen.downloads,
         buttons |-> IF checked THEN { "Generar Mapa de Calor" } ELSE {},
         selected_cols |-> <<>>, corr_cols |-> <<>>,
         session_state |-> ss, aborted |-> FALSE]

-----------------------------------------------------------------------------
(* The six plotly charts (lines 170-296 and 525-775) *)

\* Variant of CreateChart without the try/except: the exception escapes.
CreateChartUncaught(chart_type, px_raises) ==
    IF px_raises
    THEN [fig |-> None, raised |-> TRUE, msgs |-> {}]
    ELSE [fig |-> chart_type, raised |-> FALSE, msgs |-> {}]

\* create_bar_chart .. create_pie_chart: the figure, or the caught
\* exception reported with st.error and None returned.
CreateChart(chart_type, px_raises) ==
    IF px_raises
    THEN [fig |-> None, raised |-> FALSE,
          msgs |-> { Msg("error", "Error al generar grafico", 0) }]
    ELSE [fig |-> chart_type, raised |-> FALSE, msgs |-> {}]

\* Variant of Preview without the "if preview_fig:" test.
PreviewUnguarded(chart_type, fig, ss) ==
    [figures |-> IF fig # None THEN { "preview" } ELSE {},
     session_state |-> [preview_fig |-> fig, last_chart_type |-> chart_type]]

\* "if preview_fig:" block of the auto-update preview.
Preview(chart_type, fig, ss) ==
    IF fig # None
    THEN [figures |-> { "preview" },
          session_state |-> [preview_fig |-> fig, last_chart_type |-> chart_type]]
    ELSE [figures |-> {}, session_state |-> ss]

\* get_image_download_link: fig.write_image raises without the encoder,
\* and nothing catches it.
ImageDownloadLink(kal) ==
    IF kal
    THEN [downloads |-> { "png" }, raised |-> FALSE]
    ELSE [downloads |-> {}, raised |-> TRUE]

\* "if final_fig:" block of the final-chart button.
Final(fig, kal) ==
    IF fig # None
    THEN LET link == ImageDownloadLink(kal)
         IN  [figures |-> { "final" }, downloads |-> link.downloads,
              raised |-> link.raised]
    ELSE [figures |-> {}, downloads |-> {}, raised |-> FALSE]

\* create_heatmap_chart: corr_matrix = df[numeric_cols].corr(); the columns
\* of the matrix the figure shows.
CorrMatrixColumns(numeric_cols, selected_cols) == numeric_cols

\* One of the six "elif chart_type == ..." branches.
ChartSection(chart_type, df, w, ss, button, px_raises, kal) ==
    LET numeric_cols == numeric_columns(df)
        selected_cols ==
            IF chart_type = CorrChart /\ Len(numeric_cols) >= 2
            THEN SelectSeq(numeric_cols, LAMBDA c : c \in w.selected_cols)
            ELSE <<>>
        shown == chart_type # CorrChart
                 \/ (Len(numeric_cols) >= 2 /\ Len(selected_cols) >= 2)
        guardmsgs ==
            IF chart_type = CorrChart /\ Len(numeric_cols) < 2
            THEN { Msg("error", "Se necesitan al menos 2 columnas numericas", 0) }
            ELSE {}
        nothing == [fig |-> None, raised |-> FALSE, msgs |-> {}]
        pv == IF shown /\ w.auto_update
              THEN CreateChart(chart_type, px_raises) ELSE nothing
        pvout == IF pv.raised
                 THEN [figures |-> {}, session_state |-> ss]
                 ELSE Preview(chart_type, pv.fig, ss)
        fn == IF shown /\ button /\ ~pv.raised
              THEN CreateChart(chart_type, px_raises) ELSE nothing
        fnout == IF fn.raised
                 THEN [figures |-> {}, downloads |-> {}, raised |-> TRUE]
                 ELSE Final(fn.fig, kal)
    IN  [map_df |-> <<>>, value_col |-> None,
         missing_lat |-> 0, missing_lon |-> 0, missing_val |-> 0,
         dropped |-> FALSE, generate |-> FALSE, map |-> NoMap,
         msgs |-> guardmsgs \cup pv.msgs \cup fn.msgs,
         figures |-> pvout.figures \cup fnout.figures,
         downloads |-> fnout.downloads,
         buttons |-> IF shown THEN { "Generar Grafico Final" } ELSE {},
         selected_cols |-> selected_cols,
         corr_cols |-> IF chart_type = CorrChart
                          /\ (pv.fig # None \/ fn.fig # None)
                       THEN CorrMatrixColumns(numeric_cols, selected_cols)
                       ELSE <<>>,
         session_state |-> pvout.session_state,
         aborted |-> pv.raised \/ fnout.raised]

\* The "else" of "if df is not None".
NoDataSection(ss) ==
    [map_df |-> <<>>, value_col |-> None,
     missing_lat |-> 0, missing_lon |-> 0, missing_val |-> 0,
     dropped |-> FALSE, generate |-> FALSE, map |-> NoMap,
     msgs |-> { Msg("info", "Por favor carga un archivo de datos", 0) },
     figures |-> {}, downloads |-> {}, buttons |-> {},
     selected_cols |-> <<>>, corr_cols |-> <<>>,
     session_state |-> ss, aborted |-> FALSE]

-----------------------------------------------------------------------------
(* One run of the script *)

\* Every widget at the default its declaration gives it.
DefaultWidgets ==
    [chart_type |-> MapChart, auto_update |-> TRUE, lluvia_col |-> Ninguna,
     filtro_lluvia |-> "Mostrar todos", heat_radius |-> DefaultHeatRadius,
     show_geojson |-> "undef", selected_cols |-> ColumnSet]

\* The values the run reads.  A widget exists only while the run reaches
\* its declaration: the chart widgets need a table, the map widgets the map
\* chart, the filter radio a rain column, the polygon checkbox a parsed
\* GeoJSON; a widget declared anew starts at its default.
Effective(w, df_loaded, geo, gdf_loaded) ==
    IF ~df_loaded
    THEN DefaultWidgets
    ELSE IF w.chart_type # MapChart
    THEN [DefaultWidgets EXCEPT
            !.chart_type = w.chart_type,
            !.auto_update = w.auto_update,
            !.selected_cols =
                IF w.chart_type = CorrChart THEN w.selected_cols ELSE @]
    ELSE [w EXCEPT
            !.selected_cols = ColumnSet,
            !.filtro_lluvia =
                IF w.lluvia_col # Ninguna /\ w.lluvia_col \in ColumnSet
                THEN @ ELSE "Mostrar todos",
            !.show_geojson =
                IF geo # "none" /\ gdf_loaded
                THEN (IF @ = "undef" THEN "on" ELSE @)
                ELSE "undef"]

\* The record of a run: what it loaded, read and displayed.
RunRecord(ld, lg, w, button, px_raises, sec) ==
    [df_loaded |-> ld.df_loaded, df |-> ld.df,
     gdf_loaded |-> lg.gdf_loaded,
     button |-> button,
     px_raises |-> /\ px_raises
                   /\ ld.df_loaded /\ w.chart_type # MapChart
                   /\ sec.buttons # {} /\ (w.auto_update \/ button),
     map_df |-> sec.map_df, value_col |-> sec.value_col,
     missing_lat |-> sec.missing_lat,
     missing_lon |-> sec.missing_lon,
     missing_val |-> sec.missing_val,
     dropped |-> sec.dropped,
     generate |-> sec.generate, map |-> sec.map,
     msgs |-> ld.msgs \cup lg.msgs \cup sec.msgs,
     figures |-> sec.figures, downloads |-> sec.downloads,
     buttons |-> sec.buttons,
     selected_cols |-> sec.selected_cols, corr_cols |-> sec.corr_cols,
     completed |-> ~sec.aborted]

\* "if df is not None: ... else: ..." with the chain of chart branches.
Section(ld, lg, geo, w, ss, button, px_raises, kal) ==
    IF ~ld.df_loaded
    THEN NoDataSection(ss)
    ELSE IF w.chart_type = MapChart
    THEN MapSection(ld.df, geo, lg.gdf_loaded, w, ss, button)
    ELSE ChartSection(w.chart_type, ld.df, w, ss, button, px_raises, kal)

ScriptBody(ld, lg, w, button, px_raises, sec) ==
    [widgets |-> w,
     session_state |-> sec.session_state,
     run |-> RunRecord(ld, lg, w, button, px_raises, sec)]

ScriptLoaded(ld, lg, geo, w, ss, button, px_raises, kal) ==
    ScriptBody(ld, lg, w, button, px_raises,
               Section(ld, lg, geo, w, ss, button, px_raises, kal))

ScriptUploads(ld, lg, geo, w0, ss, button, px_raises, kal) ==
    ScriptLoaded(ld, lg, geo, Effective(w0, ld.df_loaded, geo, lg.gdf_loaded),
                 ss, button, px_raises, kal)

\* The script, top to bottom.
Script(f, geo, w0, ss, button, px_raises, kal) ==
    ScriptUploads(LoadData(f), LoadGeojson(geo), geo, w0, ss, button,
                  px_raises, kal)

-----------------------------------------------------------------------------
(* The session: every interaction reruns the script *)

NoFile == [status |-> "none", rows |-> <<>>]

Files ==
    { [status |-> "corrupt", rows |-> <<>>] }
    \cup { [status |-> "ok", rows |-> t] : t \in Tables }

\* What the libraries may do in a run: a plotly express call raises or not
\* (a chart is built only for a non-map chart type), fig.write_image finds
\* its PNG encoder or not (it is called only after the final button).
Outcomes(f, w, button) ==
    LET chart == f.status = "ok" /\ w.chart_type # MapChart
    IN  { [px_raises |-> p, kaleido |-> k] :
            p \in (IF chart THEN BOOLEAN ELSE { FALSE }),
            k \in (IF chart /\ button THEN BOOLEAN ELSE { TRUE }) }

Rerun(f, geo, w, button) ==
    \E o \in Outcomes(f, w, button) :
        \E r \in { Script(f, geo, w, session_state, button, o.px_raises, o.kaleido) } :
            /\ uploaded_file' = f
            /\ uploaded_geojson' = geo
            /\ widgets' = r.widgets
            /\ session_state' = r.session_state
            /\ run' = r.run

Init ==
    /\ uploaded_file = NoFile
    /\ uploaded_geojson = "none"
    /\ widgets = DefaultWidgets
    /\ session_state = [preview_fig |-> None, last_chart_type |-> None]
    /\ run = Script(NoFile, "none", DefaultWidgets,
                    [preview_fig |-> None, last_chart_type |-> None],
                    FALSE, FALSE, TRUE).run

\* The data-file uploader receives a file.
UploadFile ==
    /\ uploaded_file.status = "none"
    /\ \E f \in Files : Rerun(f, uploaded_geojson, widgets, FALSE)

\* The data file is removed from the uploader.
RemoveFile ==
    /\ uploaded_file.status # "none"
    /\ Rerun(NoFile, uploaded_geojson, widgets, FALSE)

UploadGeojson ==
    /\ uploaded_geojson = "none"
    /\ \E g \in { "ok", "corrupt" } : Rerun(uploaded_file, g, widgets, FALSE)

RemoveGeojson ==
    /\ uploaded_geojson # "none"
    /\ Rerun(uploaded_file, "none", widgets, FALSE)

SelectChartType ==
    /\ run.df_loaded
    /\ \E c \in ChartTypes \ { widgets.chart_type } :
         Rerun(uploaded_file, uploaded_geojson,
               [widgets EXCEPT !.chart_type = c], FALSE)

ToggleAutoUpdate ==
    /\ run.df_loaded
    /\ Rerun(uploaded_file, uploaded_geojson,
             [widgets EXCEPT !.auto_update = ~@], FALSE)

\* Any other widget (title, sizes, font, zoom, colour ...) is changed.
EditOther ==
    /\ run.df_loaded
    /\ Rerun(uploaded_file, uploaded_geojson, widgets, FALSE)

SelectLluviaCol ==
    /\ run.df_loaded /\ widgets.chart_type = MapChart
    /\ \E c \in LluviaCols \ { widgets.lluvia_col } :
         Rerun(uploaded_file, uploaded_geojson,
               [widgets EXCEPT !.lluvia_col = c], FALSE)

SelectFiltroLluvia ==
    /\ run.df_loaded /\ widgets.chart_type = MapChart
    /\ widgets.lluvia_col # Ninguna
    /\ \E m \in FiltroModes \ { widgets.filtro_lluvia } :
         Rerun(uploaded_file, uploaded_geojson,
               [widgets EXCEPT !.filtro_lluvia = m], FALSE)

SetHeatRadius ==
    /\ run.df_loaded /\ widgets.chart_type = MapChart
    /\ \E h \in HeatRadii \ { widgets.heat_radius } :
         Rerun(uploaded_file, uploaded_geojson,
               [widgets EXCEPT !.heat_radius = h], FALSE)

ToggleShowGeojson ==
    /\ run.df_loaded /\ widgets.chart_type = MapChart
    /\ widgets.show_geojson # "undef"
    /\ Rerun(uploaded_file, uploaded_geojson,
             [widgets EXCEPT !.show_geojson = IF @ = "on" THEN "off" ELSE "on"],
             FALSE)

PressGenerarMapa ==
    /\ "Generar Mapa de Calor" \in run.buttons
    /\ Rerun(uploaded_file, uploaded_geojson, widgets, TRUE)

PressGenerarFinal ==
    /\ "Generar Grafico Final" \in run.buttons
    /\ Rerun(uploaded_file, uploaded_geojson, widgets, TRUE)

Next ==
    \/ UploadFile
    \/ RemoveFile
    \/ UploadGeojson
    \/ RemoveGeojson
    \/ SelectChartType
    \/ ToggleAutoUpdate
    \/ EditOther
    \/ SelectLluviaCol
    \/ SelectFiltroLluvia
    \/ SetHeatRadius
    \/ ToggleShowGeojson
    \/ PressGenerarMapa
    \/ PressGenerarFinal

Spec == Init /\ [][Next]_vars

-----------------------------------------------------------------------------
(* Sessions over tables whose columns hold text or missing values *)

\* Rows of a data file whose numbers were typed with a decimal comma
\* ("3,0" stands for 3.0), left empty in the value column, or mistyped;
\* pd.read_csv and pd.read_excel hand such a field over as text, an empty
\* one as NaN.
ColumnRowDomain ==
    { [lat |-> Str("3,0"), lon |-> Num(4), valor |-> Num(2), lluvia |-> Str("si")],
      [lat |-> Num(1),     lon |-> Num(2), valor |-> NaN,    lluvia |-> Str("No")],
      [lat |-> Num(3),     lon |-> Num(4), valor |-> Num(1), lluvia |-> Str("si")],
      [lat |-> Str("abc"), lon |-> Num(2), valor |-> Num(1), lluvia |-> Str("No")] }

ColumnFiles ==
    { [status |-> "ok", rows |-> t] : t \in SeqsUpTo(ColumnRowDomain, MaxRows) }

UploadColumnFile ==
    /\ uploaded_file.status = "none"
    /\ \E f \in ColumnFiles : Rerun(f, uploaded_geojson, widgets, FALSE)

\* The multiselect "Selecciona columnas para correlacion": one option is
\* removed from or added to the selection.
SelectCorrColumns ==
    /\ run.df_loaded /\ widgets.chart_type = CorrChart
    /\ Len(numeric_columns(run.df)) >= 2
    /\ \E c \in { numeric_columns(run.df)[i] :
                    i \in 1..Len(numeric_columns(run.df)) } :
         Rerun(uploaded_file, uploaded_geojson,
               [widgets EXCEPT !.selected_cols =
                    IF c \in @ THEN @ \ { c } ELSE @ \cup { c }],
               FALSE)

NextColumns ==
    \/ UploadColumnFile
    \/ RemoveFile
    \/ SelectChartType
    \/ SelectCorrColumns
    \/ PressGenerarMapa
    \/ PressGenerarFinal

SpecColumns == Init /\ [][NextColumns]_vars

-----------------------------------------------------------------------------
(* Vocabulary of the properties *)

MapRun == run.df_loaded /\ widgets.chart_type = MapChart

RainColumnChosen ==
    widgets.lluvia_col # Ninguna /\ widgets.lluvia_col \in ColumnSet

IdxSet(t) == { t[i].idx : i \in 1..Len(t) }

\* t holds rows of df, unchanged, in df's order.
SubTableOf(t, df) ==
    /\ \A i \in 1..Len(t) : t[i].idx \in 1..Len(df) /\ t[i] = df[t[i].idx]
    /\ \A i, j \in 1..Len(t) : i < j => t[i].idx < t[j].idx

\* The cell is the affirmative token once lower-cased.
SaysSi(cell) == cell.k = "str" /\ Lower(cell.s) = "si"

ValidCoords(r) == r[lat_col].k = "num" /\ r[lon_col].k = "num"

ErrorsOf(msgs) == { m \in msgs : m.level = "error" }

UploadErrors ==
    { Msg("error", "Error al cargar archivo", 0),
      Msg("error", "Error al cargar GeoJSON", 0) }

FracSub(a, b) == Frac(a.num * b.den - b.num * a.den, a.den * b.den)

FracTimes(a, n) == Frac(a.num * n, a.den)

-----------------------------------------------------------------------------
(* C1: in rain-only mode the filtered table holds exactly the rows of the
   loaded table whose rain value, lower-cased, is "si" ("si" and "SI"
   alike), and no other row. *)
C1_RainOnlyLowerCased ==
    (MapRun /\ RainColumnChosen
       /\ widgets.filtro_lluvia = "Solo reportes por lluvia")
    => run.map_df = SelectSeq(run.df, LAMBDA r : SaysSi(r[widgets.lluvia_col]))

(* C2: exclude-rain mode returns exactly the rows rain-only mode does not
   return: the two results are disjoint, together they hold every row of
   the loaded table, and each keeps the rows as they are, in the original
   order. *)
C2_ExcludeIsComplement ==
    (MapRun /\ RainColumnChosen)
    => /\ widgets.filtro_lluvia = "Excluir reportes por lluvia"
          => LET solo == SoloLluvia(run.df, widgets.lluvia_col)
             IN  /\ IdxSet(run.map_df) \cap IdxSet(solo) = {}
                 /\ IdxSet(run.map_df) \cup IdxSet(solo) = 1..Len(run.df)
                 /\ SubTableOf(run.map_df, run.df)
       /\ widgets.filtro_lluvia = "Solo reportes por lluvia"
          => LET excl == ExcluirLluvia(run.df, widgets.lluvia_col)
             IN  /\ IdxSet(run.map_df) \cap IdxSet(excl) = {}
                 /\ IdxSet(run.map_df) \cup IdxSet(excl) = 1..Len(run.df)
                 /\ SubTableOf(run.map_df, run.df)

\* Exclude mode on a two-row table that holds one "si" row: one row is kept.
C2_Witness ==
    /\ MapRun /\ RainColumnChosen
    /\ widgets.filtro_lluvia = "Excluir reportes por lluvia"
    /\ Len(run.df) = 2 /\ Len(run.map_df) = 1
    /\ run.map_df[1].idx = 2

(* C3: in show-all mode, and whenever no rain column is chosen, the
   filtered table equals the loaded table row for row in every state the
   session can reach, whatever was selected before; and the loaded table
   is the cleaned current upload in every filter mode (filtering never
   changes it). *)
C3_ShowAllIdentity ==
    MapRun
    => /\ run.df = CleanTable(ReadTable(uploaded_file.rows))
       /\ (~RainColumnChosen \/ widgets.filtro_lluvia = "Mostrar todos")
          => run.map_df = run.df

\* Show-all with a rain column chosen, on a table the two filters would cut.
C3_Witness ==
    /\ MapRun /\ RainColumnChosen
    /\ widgets.filtro_lluvia = "Mostrar todos"
    /\ Len(run.df) = 2 /\ run.map_df = run.df
    /\ Len(SoloLluvia(run.df, widgets.lluvia_col)) = 1

(* C4: when the map is requested, no row of the uploaded table whose
   latitude or longitude is missing gets a marker, in each filter mode, and
   every remaining row of the filtered table is rendered. *)
C4_MissingCoordsExcluded ==
    (MapRun /\ run.button)
    => /\ \A i \in 1..Len(run.map.markers) :
            LET raw == uploaded_file.rows[run.map.markers[i].idx]
            IN  raw.lat # NaN /\ raw.lon # NaN
       /\ \A i \in 1..Len(run.map_df) :
            LET raw == uploaded_file.rows[run.map_df[i].idx]
            IN  (raw.lat # NaN /\ raw.lon # NaN)
                => \E j \in 1..Len(run.map.markers) :
                      run.map.markers[j].idx = run.map_df[i].idx

(* C5: on a generated map, when every value of the value column is equal
   every marker has the configured default radius; when the column has
   distinct minimum and maximum, the minimum-valued row gets a radius minR,
   the maximum-valued row a larger radius maxR, and every row is scaled
   linearly in between. *)
C5_MarkerRadius ==
    run.map.made
    => LET ms == run.map.markers
           V(i) == run.df[ms[i].idx][run.value_col].n
           I == 1..Len(ms)
       IN  /\ (\A i, j \in I : V(i) = V(j))
              => \A i \in I : ms[i].radius = Frac(widgets.heat_radius, 1)
           /\ (\E i, j \in I : V(i) # V(j))
              => \E lo, hi \in I :
                    /\ \A k \in I : V(lo) <= V(k) /\ V(k) <= V(hi)
                    /\ FracGT(ms[hi].radius, ms[lo].radius)
                    /\ \A k \in I :
                          FracTimes(FracSub(ms[k].radius, ms[lo].radius),
                                    V(hi) - V(lo))
                          = FracTimes(FracSub(ms[hi].radius, ms[lo].radius),
                                      V(k) - V(lo))

(* C6: when the map is requested, it is centred on the arithmetic mean of
   the latitudes and longitudes of the filtered rows; when no filtered row
   has valid coordinates a map is still produced and no error is reported. *)
C6_MapCentre ==
    (MapRun /\ run.button)
    => LET valid == SelectSeq(run.map_df, ValidCoords)
       IN  /\ (valid = run.map_df /\ valid # <<>>)
              => /\ run.map.made
                 /\ run.map.center = <<Mean(valid, lat_col), Mean(valid, lon_col)>>
           /\ valid = <<>>
              => run.map.made /\ ErrorsOf(run.msgs) \ UploadErrors = {}

(* C7: when the chosen rain column holds no affirmative token, rain-only
   filtering yields the empty table and the run reports zero matching rows:
   no exception, no map, and nothing reported at error level. *)
C7_EmptyResultNotAnError ==
    (MapRun /\ RainColumnChosen
       /\ widgets.filtro_lluvia = "Solo reportes por lluvia"
       /\ run.df # <<>>
       /\ \A i \in 1..Len(run.df) : ~SaysSi(run.df[i][widgets.lluvia_col]))
    => /\ run.map_df = <<>>
       /\ Msg("info", "Filtrado: solo reportes por lluvia", 0) \in run.msgs
       /\ ~run.map.made
       /\ run.completed
       /\ ErrorsOf(run.msgs) \ UploadErrors = {}

(* C8: with "Actualizacion automatica" enabled every chart type, the
   geographic heat map included, is rendered on each interaction without
   the generate button being pressed. *)
C8_AutoUpdateRendersEveryChart ==
    (run.df_loaded /\ widgets.auto_update /\ ~run.button /\ run.buttons # {})
    => IF widgets.chart_type = MapChart
       THEN (\A i \in 1..Len(run.map_df) : ValidCoords(run.map_df[i]))
            => run.map.made
       ELSE ~run.px_raises => "preview" \in run.figures

(* C9: a failed upload parse is reported and aborts only that upload.  A
   failed data-file parse leaves no table: the user is asked to load data,
   no chart section runs, and the GeoJSON upload is still processed.  A
   failed GeoJSON parse leaves the data table usable, and a requested map
   over valid coordinates is generated without the overlay and without a
   further error. *)
C9_ParseFailureContained ==
    /\ uploaded_file.status = "corrupt"
       => /\ Msg("error", "Error al cargar archivo", 0) \in run.msgs
          /\ ~run.df_loaded
          /\ Msg("info", "Por favor carga un archivo de datos", 0) \in run.msgs
          /\ run.figures = {} /\ run.downloads = {} /\ run.buttons = {}
          /\ ~run.map.made
          /\ run.completed
          /\ uploaded_geojson = "ok"
             => run.gdf_loaded /\ Msg("success", "GeoJSON cargado", 0) \in run.msgs
          /\ uploaded_geojson = "corrupt"
             => Msg("error", "Error al cargar GeoJSON", 0) \in run.msgs
    /\ uploaded_geojson = "corrupt"
       => /\ Msg("error", "Error al cargar GeoJSON", 0) \in run.msgs
          /\ ~run.gdf_loaded
          /\ MapRun => run.completed
          /\ uploaded_file.status = "ok"
             => /\ run.df_loaded
                /\ Msg("success", "Datos cargados", Len(run.df)) \in run.msgs
          /\ (MapRun /\ run.generate
                /\ \A i \in 1..Len(run.map_df) : ValidCoords(run.map_df[i]))
             => /\ run.map.made
                /\ ~run.map.overlay
                /\ ErrorsOf(run.msgs)
                   = { Msg("error", "Error al cargar GeoJSON", 0) }

\* A map generated from a usable table while the GeoJSON upload is corrupt.
C9_Witness ==
    /\ uploaded_geojson = "corrupt"
    /\ MapRun /\ run.generate /\ run.map.made
    /\ Len(run.map.markers) = 2

\* A run in which building a chart or the map failed.
RenderFailed(r) == r.px_raises \/ (r.generate /\ ~r.map.made)

(* C10: a failure while building a chart or the map is reported as an
   error message and aborts only that render: no figure is displayed, no
   download is offered, the session state is left as it was, and the rest
   of the script run completes. *)
C10_RenderFailureContained ==
    [][ RenderFailed(run')
        => /\ ErrorsOf(run'.msgs) \ UploadErrors # {}
           /\ run'.figures = {}
           /\ run'.downloads = {}
           /\ session_state' = session_state
           /\ run'.completed ]_vars

\* A failed final chart in a session that already holds a preview.
C10_Witness ==
    /\ run.px_raises /\ run.button
    /\ session_state.last_chart_type # None
    /\ session_state.last_chart_type # widgets.chart_type


\* A final figure was displayed and no PNG link followed it: fig.write_image
\* raised.
PngEncodingFailed ==
    /\ run.button
    /\ "final" \in run.figures
    /\ "png" \notin run.downloads

\* C11: when the PNG encoding of a final chart fails, the download degrades
\* to an HTML-only download with a warning, the run is not aborted and the
\* chart stays displayed.
C11_PngFailureDegrades ==
    PngEncodingFailed =>
        /\ run.completed
        /\ "final" \in run.figures
        /\ "html" \in run.downloads
        /\ \E m \in run.msgs : m.level = "warning"


\* The rows of the uploaded file whose value-column field is empty.
MissingValueRows ==
    { i \in 1..Len(uploaded_file.rows) : uploaded_file.rows[i].valor = NaN }

\* C12: before the map is rendered the user chooses how the missing entries
\* of the value column are handled, and every such entry is then dropped
\* (its row has no marker) or replaced with zero (its marker shows 0).
C12_MissingValueDroppedOrZero ==
    run.map.made =>
        \A k \in 1..Len(run.map.markers) :
            run.map.markers[k].idx \in MissingValueRows
                => run.map.markers[k].valor = Num(0)

\* The number a text with a decimal comma stands for, i.e. the number its
\* dot-separated equivalent ("3.0") parses to.
DecimalComma == [s \in { "3,0" } |-> 3]

\* C13: in the latitude, longitude and value columns a text with a decimal
\* comma is normalised to the number its dot-separated equivalent gives,
\* and a text that cannot be parsed becomes the missing-value marker.
C13_DecimalCommaNormalised ==
    MapRun =>
        \A i \in 1..Len(run.map_df) : \A col \in { "lat", "lon", "valor" } :
            LET raw == uploaded_file.rows[run.map_df[i].idx][col]
            IN  raw.k = "str" =>
                    IF raw.s \in DOMAIN DecimalComma
                    THEN run.map_df[i][col] = Num(DecimalComma[raw.s])
                    ELSE run.map_df[i][col] \in { NaN, Str("No especificado") }

\* C14: the correlation heat map is computed over exactly the columns the
\* user selected, so an unselected numeric column never appears in it, and
\* it is built only when at least two columns are selected.
C14_CorrelationOverSelection ==
    (run.df_loaded /\ widgets.chart_type = CorrChart) =>
        /\ run.corr_cols # <<>> => run.corr_cols = run.selected_cols
        /\ run.figures # {} => Len(run.selected_cols) >= 2


NonMapCharts == ChartTypes \ { MapChart }

PreviewSucceeded(w, r) ==
    /\ r.df_loaded /\ w.chart_type \in NonMapCharts /\ w.auto_update
    /\ ~r.px_raises
    /\ "preview" \in r.figures

\* C16: preview_fig and last_chart_type are written only by a successful
\* auto-update preview of a non-map chart, both together (one is None
\* exactly when the other is); a run with auto-update off, a final-chart
\* press (without preview), a map generation, a failed chart construction
\* and a run without a table leave both unchanged.
C16_SessionWrittenOnlyByPreview ==
    [][ /\ (session_state'.preview_fig = None
                <=> session_state'.last_chart_type = None)
        /\ session_state' # session_state =>
              /\ PreviewSucceeded(widgets', run')
              /\ session_state' = [preview_fig |-> widgets'.chart_type,
                                   last_chart_type |-> widgets'.chart_type]
        /\ (\/ ~widgets'.auto_update
            \/ run'.generate
            \/ widgets'.chart_type = MapChart
            \/ run'.px_raises
            \/ ~run'.df_loaded) => session_state' = session_state ]_vars

\* A chart construction failed, or the final button was pressed with
\* auto-update off, in a session that had previewed another chart.
C16_Witness ==
    /\ run.df_loaded /\ widgets.chart_type \in NonMapCharts
    /\ run.px_raises \/ (run.button /\ ~widgets.auto_update /\ "final" \in run.figures)
    /\ session_state.last_chart_type \in NonMapCharts \ { widgets.chart_type }
    /\ session_state.preview_fig = session_state.last_chart_type

MissingForms == { NaN, Str("nan"), Str("NaN"), Str("") }

=============================================================================
